---- MODULE Spec2Model ----
(***************************************************************************)
(* Billing tool (src/app.py): the DataManager record store (settings,      *)
(* inventory and invoice tables in a parquet or a json file, backup before *)
(* overwrite) and the handlers that write through it.                      *)
(*                                                                         *)
(* Texts are sequences of one-character strings.  A DataFrame cell is a    *)
(* tagged value (str / int / float), because pandas.read_json re-infers    *)
(* the type of every column when it loads a file.  Floats are carried in   *)
(* hundredths.  uuid4 values are fresh numbers, timestamps are the clock.  *)
(***************************************************************************)
EXTENDS Integers, Sequences, FiniteSets, TLC

\* ------------------------------------------------------------------ bounds
MaxClock == 2
MaxCounter == 2
MaxCart == 2
MaxUuid == 2
\* items in the catalog
MaxItems == 1
MaxLimit == 2
MaxRows == 3

\* --------------------------------------------------------------- constants
DefaultTaxRate == 0

DefaultDiscountRate == 0

Modes == {"parquet", "json"}

Tables == {"inventory", "invoices"}

DefaultStorageMode == "parquet"

DefaultInvoiceCounter == 1

DefaultPrefix == <<"I", "N", "V">>

\* ------------------------------------------------------------------- texts
DigitChars == <<"0", "1", "2", "3", "4", "5", "6", "7", "8", "9">>

IsDigit(c) == \E i \in 1..10 : DigitChars[i] = c

DigitVal(c) == (CHOOSE i \in 1..10 : DigitChars[i] = c) - 1

RECURSIVE Digits(_)
\* str(n) of a non-negative int
Digits(n) == IF n < 10 THEN <<DigitChars[n + 1]>>
             ELSE Digits(n \div 10) \o <<DigitChars[(n % 10) + 1]>>

RECURSIVE ParseDigits(_)
\* int(text) of a non-empty all-digit text
ParseDigits(t) == IF Len(t) = 0 THEN 0
                  ELSE 10 * ParseDigits(SubSeq(t, 1, Len(t) - 1)) + DigitVal(t[Len(t)])

AllDigits(t) == Len(t) > 0 /\ \A i \in 1..Len(t) : IsDigit(t[i])

LowerChar(c) == CASE c = "A" -> "a"
                  [] c = "B" -> "b"
                  [] c = "K" -> "k"
                  [] c = "N" -> "n"
                  [] c = "R" -> "r"
                  [] c = "W" -> "w"
                  [] OTHER -> c

\* str.lower()
Lower(t) == [i \in 1..Len(t) |-> LowerChar(t[i])]

RECURSIVE Join(_, _)
\* sep.join(parts)
Join(sep, parts) == IF Len(parts) = 0 THEN <<>>
                    ELSE IF Len(parts) = 1 THEN parts[1]
                    ELSE parts[1] \o sep \o Join(sep, Tail(parts))

RECURSIVE LStrip(_)
LStrip(t) == IF t # <<>> /\ Head(t) = " " THEN LStrip(Tail(t)) ELSE t

RECURSIVE RStrip(_)
RStrip(t) == IF t # <<>> /\ t[Len(t)] = " " THEN RStrip(SubSeq(t, 1, Len(t) - 1)) ELSE t

\* str.strip() (texts here hold no other whitespace than blanks)
Strip(t) == RStrip(LStrip(t))

\* ------------------------------------------------------------------- cells
StrCell(t) == [k |-> "str", s |-> t, n |-> 0]

IntCell(i) == [k |-> "int", s |-> <<>>, n |-> i]

\* a float, n in hundredths
FloatCell(h) == [k |-> "float", s |-> <<>>, n |-> h]

\* a missing value of a CSV row
NaNCell == [k |-> "nan", s |-> <<>>, n |-> 0]

\* pd.isna
IsNa(c) == c.k = "nan"

\* the value of a numeric cell in hundredths
Hundredths(c) == IF c.k = "int" THEN 100 * c.n ELSE c.n

\* Python ==: numbers compare by value, a str never equals a number
PyEq(a, b) == IF a.k = "str" \/ b.k = "str" THEN a = b
              ELSE Hundredths(a) = Hundredths(b)

\* repr of a float given in hundredths: 100.0, 12.5, 12.34
FloatRepr(h) == Digits(h \div 100) \o <<".">> \o
                (IF h % 10 = 0 THEN <<DigitChars[((h % 100) \div 10) + 1]>>
                 ELSE <<DigitChars[((h % 100) \div 10) + 1], DigitChars[(h % 10) + 1]>>)

\* str(cell)
Str(c) == CASE c.k = "str" -> c.s
            [] c.k = "int" -> Digits(c.n)
            [] OTHER -> FloatRepr(c.n)

\* ------------------------------------------------------ inventory records
TextFields == {"item_id", "sku", "name", "company"}

NumFields == {"size_mm", "size_inch", "base_price", "tax_rate", "discount_rate"}

\* bool(cell): a non-empty str, a non-zero number
Truthy(c) == IF c.k = "str" THEN Len(c.s) > 0 ELSE c.n # 0

\* f"{x:.2f}" of a value in hundredths
Fmt2f(h) == Digits(h \div 100) \o <<".">> \o
            <<DigitChars[((h % 100) \div 10) + 1], DigitChars[(h % 10) + 1]>>

\* f"{x:.1f}" of a value in hundredths with at most one decimal
Fmt1f(h) == Digits(h \div 100) \o <<".">> \o <<DigitChars[((h % 100) \div 10) + 1]>>

\* f"{int(x)}" if x is whole, else the given rendering
WholeOr(h, other) == IF h % 100 = 0 THEN Digits(h \div 100) ELSE other

_create_search_blob(row) ==
    Lower(Join(<<" ">>, <<Str(row.sku), Str(row.name), Str(row.company),
                          Str(row.size_mm), Str(row.size_inch), Str(row.base_price),
                          Str(row.tax_rate), Str(row.discount_rate)>>))

SizeParts(row) ==
    <<WholeOr(Hundredths(row.size_mm), FloatRepr(Hundredths(row.size_mm))) \o <<"m", "m">>>> \o
    <<WholeOr(Hundredths(row.size_inch), FloatRepr(Hundredths(row.size_inch))) \o <<"\"">>>>

RateParts(row) ==
    (IF Hundredths(row.tax_rate) > 0
     THEN <<<<"T", "a", "x", ":", " ">> \o
            WholeOr(Hundredths(row.tax_rate), Fmt1f(Hundredths(row.tax_rate))) \o <<"%">>>>
     ELSE <<>>) \o
    (IF Hundredths(row.discount_rate) > 0
     THEN <<<<"D", "i", "s", "c", ":", " ">> \o
            WholeOr(Hundredths(row.discount_rate), Fmt1f(Hundredths(row.discount_rate))) \o <<"%">>>>
     ELSE <<>>)

_create_display_text(row) ==
    Join(<<" ", "|", " ">>,
         (IF Truthy(row.sku) THEN <<Str(row.sku)>> ELSE <<>>) \o
         (IF Truthy(row.name) THEN <<Str(row.name)>> ELSE <<>>) \o
         (IF Truthy(row.company) THEN <<Str(row.company)>> ELSE <<>>) \o
         <<<<"Rs">> \o WholeOr(Hundredths(row.base_price), Fmt2f(Hundredths(row.base_price)))>> \o
         <<Join(<<" ", "/", " ">>, SizeParts(row))>> \o
         (IF RateParts(row) # <<>> THEN <<Join(<<" ", "|", " ">>, RateParts(row))>> ELSE <<>>))


\* --------------------------------------------------------- decimal.Decimal
\* A non-negative Decimal is m * 10^-e, kept with the fewest decimals.
RECURSIVE Pow10(_)
Pow10(n) == IF n = 0 THEN 1 ELSE 10 * Pow10(n - 1)

RECURSIVE Normalize(_)
Normalize(d) == IF d.e > 0 /\ d.m % 10 = 0
                THEN Normalize([m |-> d.m \div 10, e |-> d.e - 1])
                ELSE d

Max2(a, b) == IF a >= b THEN a ELSE b

\* Decimal(str(x)) of a float given in hundredths
DecOfHundredths(h) == Normalize([m |-> h, e |-> 2])

DecOfInt(i) == [m |-> i, e |-> 0]

DAdd(a, b) == Normalize([m |-> a.m * Pow10(Max2(a.e, b.e) - a.e) + b.m * Pow10(Max2(a.e, b.e) - b.e),
                         e |-> Max2(a.e, b.e)])

\* a - b, for a >= b
DSub(a, b) == Normalize([m |-> a.m * Pow10(Max2(a.e, b.e) - a.e) - b.m * Pow10(Max2(a.e, b.e) - b.e),
                         e |-> Max2(a.e, b.e)])

DMul(a, b) == Normalize([m |-> a.m * b.m, e |-> a.e + b.e])

\* d / 100
DDiv100(d) == Normalize([m |-> d.m, e |-> d.e + 2])

\* d.quantize(Decimal('0.01')) under the context's default rounding, ROUND_HALF_EVEN
QuantizeHalfEven(d) ==
    IF d.e <= 2 THEN d.m * Pow10(2 - d.e)
    ELSE (d.m \div Pow10(d.e - 2)) +
         (IF \/ 2 * (d.m % Pow10(d.e - 2)) > Pow10(d.e - 2)
             \/ /\ 2 * (d.m % Pow10(d.e - 2)) = Pow10(d.e - 2)
                /\ (d.m \div Pow10(d.e - 2)) % 2 = 1
          THEN 1 ELSE 0)

\* d.quantize(Decimal('0.01'), rounding=ROUND_HALF_UP), in hundredths
QuantizeHalfUp(d) ==
    IF d.e <= 2 THEN d.m * Pow10(2 - d.e)
    ELSE (d.m \div Pow10(d.e - 2)) +
         (IF 2 * (d.m % Pow10(d.e - 2)) >= Pow10(d.e - 2) THEN 1 ELSE 0)


\* --------------------------------------------------------------- DataFrames
CellFields == {"item_id", "sku", "name", "company", "size_mm", "size_inch", "base_price",
               "tax_rate", "discount_rate", "search_blob", "display_text",
               "invoice_id", "invoice_number", "customer_name", "global_discount_rate",
               "global_tax_rate", "subtotal", "total_discount", "total_tax", "grand_total"}

NumericColumns == NumFields \cup {"global_discount_rate", "global_tax_rate", "subtotal",
                                  "total_discount", "total_tax", "grand_total"}

\* float(text) succeeds (texts here hold letters, digits and punctuation only)
FloatParsable(c) == c.k # "str" \/ AllDigits(c.s)

CellHundredths(c) == IF c.k = "str" THEN 100 * ParseDigits(c.s) ELSE Hundredths(c)

\* pandas.read_json(orient='records') with its default dtype=True: a column whose
\* every cell converts to float64 is converted, and then to int64 when every value
\* is whole; any other column is kept as parsed
ReadJsonCell(rows, f, i) ==
    IF \A j \in 1..Len(rows) : FloatParsable(rows[j][f])
    THEN IF \A j \in 1..Len(rows) : CellHundredths(rows[j][f]) % 100 = 0
         THEN IntCell(CellHundredths(rows[i][f]) \div 100)
         ELSE FloatCell(CellHundredths(rows[i][f]))
    ELSE rows[i][f]

ReadJson(rows) ==
    [i \in 1..Len(rows) |->
        [f \in DOMAIN rows[i] |->
            IF f \in CellFields THEN ReadJsonCell(rows, f, i) ELSE rows[i][f]]]

\* pandas column dtypes after pd.concat / .loc assignment of a row of floats:
\* a numeric column holding a float is float64 throughout
AsFloatColumns(rows) ==
    [i \in 1..Len(rows) |->
        [f \in DOMAIN rows[i] |->
            IF f \in NumericColumns THEN FloatCell(Hundredths(rows[i][f])) ELSE rows[i][f]]]

\* ------------------------------------------------------------------- state
VARIABLES
    settings,        \* data_manager.settings
    settings_file,   \* data/settings.json: [st, val]
    files,           \* data/<table>.<ext>: [st, rows]
    backups,         \* data/backups/<stem>_<timestamp>.<ext>
    clock,           \* datetime.now() in seconds
    invoice_cart,    \* st.session_state.invoice_cart
    uuid_next,       \* number of uuid4 values drawn
    pc,              \* position inside save_inventory / save_invoices
    pend,            \* the handler and DataFrame of the save in progress
    ret,             \* the save_* call that returned or raised in the last step
    last_load,       \* the load_* call of the last step: file state and result
    last_number,     \* counter in the number of the last invoice saved since the
                     \* numbering was last set or reloaded (0: none)
    prev_number,     \* last_number before that save
    expected,        \* observer: per overwriting successful save_*, the backup it made
    last_save,       \* observer: per file, the second of the last save_* call and of the
                     \* last successful one (-1: none), and what the last failed write
                     \* replaced
    collided,        \* observer: files with two save_* calls in one second
    saved_invoices,  \* observer: per format, the invoices saved so far, in order
    other_session    \* st.session_state of the browser session that is not running:
                     \* its data_manager.settings and its invoice_cart

pvars == <<settings, settings_file, files, backups, clock, invoice_cart, uuid_next, pc,
           pend, ret, last_load, last_number, prev_number>>

vars == <<pvars, expected, last_save, collided, saved_invoices, other_session>>

default_settings == [storage_mode |-> DefaultStorageMode,
                     default_tax_rate |-> DefaultTaxRate,
                     default_discount_rate |-> DefaultDiscountRate,
                     invoice_counter |-> DefaultInvoiceCounter,
                     invoice_number_prefix |-> DefaultPrefix]

AbsentFile == [st |-> "absent", rows |-> <<>>]

PartialFile == [st |-> "partial", rows |-> <<>>]

OkFile(rows) == [st |-> "ok", rows |-> rows]

NoPend == [op |-> "none", table |-> "none", ext |-> "none", df |-> <<>>, rows |-> <<>>,
           before |-> AbsentFile, ts |-> 0, locals |-> <<>>]

NoRet == [fn |-> "none", out |-> "none", df |-> <<>>, res |-> <<>>]

NoLoad == [table |-> "none", st |-> "none", out |-> [columns |-> "none", rows |-> <<>>]]

\* ------------------------------------------------------------- settings I/O
\* save_settings: json.dump into settings.json; an error is caught and only shown,
\* leaving the file as it was (open failed) or truncated (dump failed)
SaveHows == {"written", "refused", "truncated"}

\* settings.json after save_settings ran on s: json.dump completed, open() raised,
\* or json.dump raised midway
SaveSettingsAs(s, how) ==
    CASE how = "written" -> [st |-> "ok", val |-> s]
      [] how = "refused" -> settings_file
      [] OTHER -> [st |-> "partial", val |-> default_settings]

SaveSettingsOutcomes(s) == {SaveSettingsAs(s, how) : how \in SaveHows}

\* the defaults overlaid with the persisted values of the keys the defaults have
load_known_settings ==
    IF settings_file.st = "ok"
    THEN [k \in DOMAIN default_settings |->
             IF k \in DOMAIN settings_file.val THEN settings_file.val[k]
             ELSE default_settings[k]]
    ELSE default_settings

\* the settings of the running session kept when json.load fails
load_settings_or_keep ==
    IF settings_file.st = "ok"
    THEN [k \in DOMAIN default_settings \cup DOMAIN settings_file.val |->
             IF k \in DOMAIN settings_file.val THEN settings_file.val[k]
             ELSE default_settings[k]]
    ELSE IF settings_file.st = "partial" THEN settings
    ELSE default_settings

\* default_settings.update(loaded_settings): every key of the file, known or not,
\* with its persisted value; the defaults alone when the file is absent or
\* json.load fails
load_settings_value ==
    IF settings_file.st = "ok"
    THEN [k \in DOMAIN default_settings \cup DOMAIN settings_file.val |->
             IF k \in DOMAIN settings_file.val THEN settings_file.val[k]
             ELSE default_settings[k]]
    ELSE default_settings


\* --------------------------------------------------------------- the store
\* _get_file_path without the storage mode: the parquet file, whatever is selected
ParquetPath(base_name) == [table |-> base_name, ext |-> "parquet"]

\* _get_file_path: parquet mode selects <base>.parquet, any other mode <base>.json
_get_file_path(base_name) ==
    [table |-> base_name,
     ext |-> IF settings.storage_mode = "parquet" THEN "parquet" ELSE "json"]

FileAt(path) == files[path.table][path.ext]

\* the backup's name without the timestamp
UnstampedBackupName(path) == [stem |-> path.table, ts |-> 0, ext |-> path.ext]

\* backups/<stem>_<timestamp><suffix>
BackupName(path) == [stem |-> path.table, ts |-> clock, ext |-> path.ext]

\* shutil.copy2 onto backups/<stem>_<timestamp><suffix>: a file of that name is replaced
CopyTo(name, content) ==
    {b \in backups : b.name # name} \cup {[name |-> name, content |-> content]}

\* _backup_file: the backup directory after it returns
_backup_file(path) ==
    IF FileAt(path).st # "absent" THEN CopyTo(BackupName(path), FileAt(path)) ELSE backups

\* the backup directory after copy2 raised: nothing written, or a truncated copy
BackupFailures(path) == {backups, CopyTo(BackupName(path), PartialFile)}

EmptyCanonical == [columns |-> "canonical", rows |-> <<>>]

\* load_inventory: the DataFrames it can return
load_inventory ==
    LET path == _get_file_path("inventory")
        f == FileAt(path)
    IN  IF f.st = "absent" THEN {EmptyCanonical}
        ELSE IF f.st = "partial" THEN {EmptyCanonical}
        ELSE IF path.ext = "parquet" THEN {[columns |-> "canonical", rows |-> f.rows]}
        ELSE IF f.rows = <<>>
             \* "[]" parses to a frame without columns; adding display_text to it
             \* raises or not with the pandas version
             THEN {EmptyCanonical, [columns |-> "none", rows |-> <<>>]}
        ELSE {[columns |-> "canonical", rows |-> ReadJson(f.rows)]}

\* load_invoices: the DataFrame it returns
load_invoices ==
    LET path == _get_file_path("invoices")
        f == FileAt(path)
    IN  IF f.st = "absent" THEN {EmptyCanonical}
        ELSE IF f.st = "partial" THEN {[columns |-> "none", rows |-> <<>>]}
        ELSE IF path.ext = "parquet" THEN {[columns |-> "canonical", rows |-> f.rows]}
        ELSE IF f.rows = <<>> THEN {[columns |-> "none", rows |-> <<>>]}
        ELSE {[columns |-> "canonical", rows |-> ReadJson(f.rows)]}

\* save_inventory writing the derived columns as the caller handed them
StaleDerived(rows) == [i \in 1..Len(rows) |-> [rows[i] EXCEPT !.updated_at = clock]]

\* save_inventory, inside try: the derived columns and updated_at of every row
RecomputeDerived(rows) ==
    [i \in 1..Len(rows) |->
        [rows[i] EXCEPT !.search_blob = StrCell(_create_search_blob(rows[i])),
                        !.display_text = StrCell(_create_display_text(rows[i])),
                        !.updated_at = clock]]

\* ------------------------------------------------------------------ pricing
\* add_to_cart with the discount amount rounded to hundredths before it is subtracted
CartItemRoundedDiscount(item, quantity, discount_rate) ==
    LET unit_price == DecOfHundredths(Hundredths(item.base_price))
        qty == DecOfInt(quantity)
        discount == DDiv100(DecOfHundredths(discount_rate))
        line_subtotal == DMul(unit_price, qty)
        line_discount == DecOfHundredths(QuantizeHalfUp(DMul(line_subtotal, discount)))
        line_total == DSub(line_subtotal, line_discount)
    IN  [item_id |-> item.item_id, sku |-> item.sku, name |-> item.name,
         company |-> item.company, quantity |-> quantity,
         unit_price |-> Hundredths(item.base_price), discount_rate |-> discount_rate,
         tax_rate |-> Hundredths(item.tax_rate), line_total |-> line_total]

\* add_to_cart: the cart line of `item` (a loaded inventory row). line_total is stored
\* as float(line_total) and read back as Decimal(str(...)): a double returns a decimal
\* of at most 15 significant digits unchanged but for trailing zeros, which DSub drops.
CartItem(item, quantity, discount_rate) ==
    LET unit_price == DecOfHundredths(Hundredths(item.base_price))
        qty == DecOfInt(quantity)
        discount == DDiv100(DecOfHundredths(discount_rate))
        line_subtotal == DMul(unit_price, qty)
        line_discount == DMul(line_subtotal, discount)
        line_total == DSub(line_subtotal, line_discount)
    IN  [item_id |-> item.item_id, sku |-> item.sku, name |-> item.name,
         company |-> item.company, quantity |-> quantity,
         unit_price |-> Hundredths(item.base_price), discount_rate |-> discount_rate,
         tax_rate |-> Hundredths(item.tax_rate), line_total |-> line_total]

\* the loop of calculate_invoice_totals assigning each line total instead of adding it
LastLineTotal(cart) == IF cart = <<>> THEN DecOfInt(0) ELSE cart[Len(cart)].line_total

RECURSIVE SumLineTotals(_)
SumLineTotals(cart) == IF cart = <<>> THEN DecOfInt(0)
                       ELSE DAdd(SumLineTotals(SubSeq(cart, 1, Len(cart) - 1)),
                                 cart[Len(cart)].line_total)

\* totals whose grand_total leaves the global discount out
calculate_invoice_totals_undiscounted(cart, global_discount_rate, global_tax_rate) ==
    LET subtotal == SumLineTotals(cart)
        global_discount_amount == DMul(subtotal, DDiv100(DecOfHundredths(global_discount_rate)))
        after_discount == DSub(subtotal, global_discount_amount)
        global_tax_amount == DMul(after_discount, DDiv100(DecOfHundredths(global_tax_rate)))
        grand_total == DAdd(subtotal, global_tax_amount)
    IN  [subtotal |-> QuantizeHalfUp(subtotal),
         total_discount |-> QuantizeHalfUp(global_discount_amount),
         total_tax |-> QuantizeHalfUp(global_tax_amount),
         grand_total |-> QuantizeHalfUp(grand_total)]

\* calculate_invoice_totals over st.session_state.invoice_cart; rates and results
\* in hundredths
calculate_invoice_totals(cart, global_discount_rate, global_tax_rate) ==
    LET subtotal == SumLineTotals(cart)
        global_discount_amount == DMul(subtotal, DDiv100(DecOfHundredths(global_discount_rate)))
        after_discount == DSub(subtotal, global_discount_amount)
        global_tax_amount == DMul(after_discount, DDiv100(DecOfHundredths(global_tax_rate)))
        grand_total == DAdd(after_discount, global_tax_amount)
    IN  [subtotal |-> QuantizeHalfUp(subtotal),
         total_discount |-> QuantizeHalfUp(global_discount_amount),
         total_tax |-> QuantizeHalfUp(global_tax_amount),
         grand_total |-> QuantizeHalfUp(grand_total)]

\* ---------------------------------------------------------- invoice numbers
\* f"{n:04d}"
Pad4(n) == IF n < 10 THEN <<"0", "0", "0">> \o Digits(n)
           ELSE IF n < 100 THEN <<"0", "0">> \o Digits(n)
           ELSE IF n < 1000 THEN <<"0">> \o Digits(n)
           ELSE Digits(n)

\* f"{prefix}-{counter:04d}"
InvoiceNumber(prefix, counter) == prefix \o <<"-">> \o Pad4(counter)

\* the counter embedded in an invoice number: the digits after its last "-"
CounterOf(number) ==
    LET dash == CHOOSE i \in 1..Len(number) :
                    number[i] = "-" /\ \A j \in (i + 1)..Len(number) : number[j] # "-"
    IN  ParseDigits(SubSeq(number, dash + 1, Len(number)))


\* ------------------------------------------------------------------ Init
\* the state after DataManager() ran on a data directory holding `stored`
InitOn(stored, loaded_settings) ==
    /\ settings = loaded_settings
    /\ settings_file = [st |-> "ok", val |-> loaded_settings]
    /\ clock = 0
    /\ files = stored
    /\ backups = {}
    /\ invoice_cart = <<>>
    /\ uuid_next = 1
    /\ pc = "idle"
    /\ pend = NoPend
    /\ ret = NoRet
    /\ last_load = NoLoad
    /\ last_number = 0
    /\ prev_number = 0
    /\ expected = {}
    /\ last_save = [t \in Tables |-> [m \in Modes |->
                       [try |-> -1, ok |-> -1, replaced |-> AbsentFile]]]
    /\ collided = {}
    /\ saved_invoices = [m \in Modes |-> IF stored["invoices"][m].st = "ok"
                                          THEN stored["invoices"][m].rows ELSE <<>>]
    /\ other_session = [settings |-> loaded_settings, invoice_cart |-> <<>>]

\* a fresh installation
Init == InitOn([t \in Tables |-> [m \in Modes |-> AbsentFile]], default_settings)

\* ------------------------------------------------- save_inventory / save_invoices
SaveFn(table) == IF table = "inventory" THEN "save_inventory" ELSE "save_invoices"

\* how a save_* call ended, and the DataFrame it had been handed
SaveRet(table, out, df) == [fn |-> SaveFn(table), out |-> out, df |-> df, res |-> <<>>]

\* the dict import_from_csv returns after save_inventory returned `out` or raised, with
\* the call's arguments and the file it found
ImportReturn(out, locals, before) ==
    [op |-> "import_from_csv", mode |-> locals.mode, csv_df |-> locals.csv_df,
     before |-> before,
     success |-> out = "True",
     imported_count |-> IF out = "True" THEN Len(locals.new_items) ELSE 0,
     errors |-> IF out = "raise" THEN <<[row |-> 0, why |-> "exception"]>>
                ELSE locals.errors]

\* what the handler `op` hands back once its save_* call ended
HandlerReturn(op, out, locals, before) ==
    IF op = "import_from_csv" THEN ImportReturn(out, locals, before)
    ELSE IF DOMAIN locals = {} THEN <<>>
    ELSE [op |-> op, success |-> out = "True", before |-> before, locals |-> locals]

\* Entry of save_inventory(df) / save_invoices(df), called by handler `op` whose own
\* variables are `locals`: _get_file_path, then _backup_file outside the try block
BeginSaveIn(op, table, rows, locals) ==
    LET path == _get_file_path(table)
    IN  \/ /\ backups' = _backup_file(path)
           /\ pc' = "backed_up"
           /\ pend' = [op |-> op, table |-> table, ext |-> path.ext, df |-> rows,
                       rows |-> rows,
                       before |-> FileAt(path), ts |-> clock, locals |-> locals]
           /\ ret' = NoRet
        \/ \* shutil.copy2 raises, and so does save_*
           /\ FileAt(path).st # "absent"
           /\ backups' \in BackupFailures(path)
           /\ ret' = [SaveRet(table, "raise", rows) EXCEPT
                         !.res = HandlerReturn(op, "raise", locals, FileAt(path))]
           /\ UNCHANGED <<pc, pend>>

BeginSave(op, table, rows) == BeginSaveIn(op, table, rows, <<>>)

\* data_manager.settings['invoice_counter'] += 1, skipped
KeepCounter(n) == n

\* data_manager.settings['invoice_counter'] += 1
IncrementCounter(n) == n + 1

\* The handler's code after save_* returned `out` ("True" / "False")
Finish(out) ==
    /\ pc' = "idle"
    /\ pend' = NoPend
    /\ ret' = [SaveRet(pend.table, out, pend.df) EXCEPT
                  !.res = HandlerReturn(pend.op, out, pend.locals, pend.before)]
    /\ IF pend.op = "save_invoice" /\ out = "True"
       THEN \* save_invoice: counter += 1, save_settings(), cart cleared
            /\ settings' = [settings EXCEPT !.invoice_counter = IncrementCounter(@)]
            /\ settings_file' \in SaveSettingsOutcomes(settings')
            /\ invoice_cart' = <<>>
            /\ last_number' = CounterOf(pend.rows[Len(pend.rows)].invoice_number.s)
            /\ prev_number' = last_number
       ELSE UNCHANGED <<settings, settings_file, invoice_cart, last_number, prev_number>>

\* try: recompute the derived columns (inventory) and open the target for writing
WriteOpen ==
    /\ pc = "backed_up"
    /\ \/ /\ pc' = "writing"
          /\ pend' = [pend EXCEPT !.rows = IF pend.table = "inventory"
                                           THEN RecomputeDerived(pend.rows) ELSE pend.rows]
          /\ files' = [files EXCEPT ![pend.table][pend.ext] = PartialFile]
          /\ ret' = NoRet
          /\ UNCHANGED <<settings, settings_file, invoice_cart, last_number, prev_number>>
       \/ \* an error before the file is touched: except -> return False
          /\ Finish("False")
          /\ UNCHANGED files
    /\ last_load' = NoLoad
    /\ UNCHANGED <<backups, clock, uuid_next>>

\* to_parquet / to_json completes (return True) or fails midway (return False)
WriteClose ==
    /\ pc = "writing"
    /\ \/ /\ files' = [files EXCEPT ![pend.table][pend.ext] = OkFile(pend.rows)]
          /\ Finish("True")
       \/ /\ Finish("False")
          /\ UNCHANGED files
    /\ last_load' = NoLoad
    /\ UNCHANGED <<backups, clock, uuid_next>>

\* ------------------------------------------------------------- handlers
NewUuid == StrCell(<<"u">> \o Digits(uuid_next))

Loaded(table, df) == [table |-> table, st |-> FileAt(_get_file_path(table)).st, out |-> df]

\* save_inventory_item: `form` holds the form's fields, item_id = "" for a new item
save_inventory_item(form, item_id) ==
    /\ pc = "idle"
    /\ Len(form.sku) > 0 /\ Len(form.name) > 0
    /\ \E df \in load_inventory :
         LET new_item == [item_id |-> IF item_id # <<>> THEN StrCell(item_id) ELSE NewUuid,
                          sku |-> StrCell(form.sku), name |-> StrCell(form.name),
                          company |-> StrCell(form.company),
                          size_mm |-> FloatCell(form.size_mm),
                          size_inch |-> FloatCell(form.size_inch),
                          base_price |-> FloatCell(form.base_price),
                          tax_rate |-> FloatCell(form.tax_rate),
                          discount_rate |-> FloatCell(form.discount_rate),
                          search_blob |-> StrCell(<<>>), display_text |-> StrCell(<<>>),
                          created_at |-> clock, updated_at |-> clock]
             exists == item_id # <<>> /\ \E i \in 1..Len(df.rows) :
                                            PyEq(df.rows[i].item_id, StrCell(item_id))
             updated == [i \in 1..Len(df.rows) |->
                            IF PyEq(df.rows[i].item_id, StrCell(item_id))
                            THEN [new_item EXCEPT !.created_at = df.rows[i].created_at]
                            ELSE df.rows[i]]
             rows == AsFloatColumns(IF exists THEN updated ELSE Append(df.rows, new_item))
         IN  /\ last_load' = Loaded("inventory", df)
             /\ IF item_id # <<>> /\ df.columns # "canonical"
                THEN \* df['item_id'] raises KeyError
                     /\ ret' = [fn |-> "save_inventory_item", out |-> "raise", df |-> <<>>, res |-> <<>>]
                     /\ UNCHANGED <<backups, pc, pend, uuid_next>>
                ELSE /\ item_id = <<>> => uuid_next <= MaxUuid /\ Len(df.rows) < MaxItems
                     /\ (item_id # <<>> /\ ~exists) => Len(df.rows) < MaxRows
                     /\ uuid_next' = IF item_id # <<>> THEN uuid_next ELSE uuid_next + 1
                     /\ BeginSaveIn("save_inventory_item", "inventory", rows,
                                    [item_id |-> new_item.item_id,
                                     action |-> IF exists THEN "updated" ELSE "added"])
    /\ UNCHANGED <<settings, settings_file, files, clock, invoice_cart, last_number, prev_number>>

\* import_from_csv, the loop over csv_df.iterrows(): the items of the rows that pass,
\* row by row; a uuid4 is drawn for every row that has a sku and a name, and the row
\* is dropped when float() of one of its numbers raises
RECURSIVE NewItems(_, _, _)
NewItems(csv_df, drawn, current_time) ==
    IF csv_df = <<>> THEN <<>>
    ELSE LET row == Head(csv_df)
             num(f, default) == IF IsNa(row[f]) THEN FloatCell(default)
                                ELSE FloatCell(CellHundredths(row[f]))
         IN  IF IsNa(row.sku) \/ IsNa(row.name)
             THEN NewItems(Tail(csv_df), drawn, current_time)
             ELSE IF \E f \in NumFields : ~IsNa(row[f]) /\ ~FloatParsable(row[f])
             THEN NewItems(Tail(csv_df), drawn + 1, current_time)
             ELSE <<[item_id |-> StrCell(<<"u">> \o Digits(drawn + 1)),
                     sku |-> StrCell(Strip(Str(row.sku))),
                     name |-> StrCell(Strip(Str(row.name))),
                     company |-> IF IsNa(row.company) THEN StrCell(<<>>)
                                 ELSE StrCell(Strip(Str(row.company))),
                     size_mm |-> num("size_mm", 0),
                     size_inch |-> num("size_inch", 0),
                     base_price |-> num("base_price", 0),
                     tax_rate |-> num("tax_rate", settings.default_tax_rate),
                     discount_rate |-> num("discount_rate", settings.default_discount_rate),
                     search_blob |-> StrCell(<<>>), display_text |-> StrCell(<<>>),
                     created_at |-> current_time, updated_at |-> current_time]>>
                  \o NewItems(Tail(csv_df), drawn + 1, current_time)

RECURSIVE RowErrors(_, _)
\* import_from_csv, the loop over csv_df.iterrows(): the entries it appends to `errors`,
\* one for each row lacking a sku or a name and one for each row whose float() raises;
\* idx is the index of the first row of csv_df in the file
RowErrors(csv_df, idx) ==
    IF csv_df = <<>> THEN <<>>
    ELSE LET row == Head(csv_df)
         IN  (IF IsNa(row.sku) \/ IsNa(row.name)
              THEN <<[row |-> idx + 2, why |-> "required"]>>
              ELSE IF \E f \in NumFields : ~IsNa(row[f]) /\ ~FloatParsable(row[f])
              THEN <<[row |-> idx + 2, why |-> "float"]>>
              ELSE <<>>)
             \o RowErrors(Tail(csv_df), idx + 1)

\* import_from_csv(csv_file, mode), csv_df being what pd.read_csv made of the file;
\* it returns early, saving nothing, on an empty file and when no row passes
import_from_csv(csv_df, mode) ==
    /\ pc = "idle"
    /\ IF csv_df = <<>>
       THEN /\ ret' = [fn |-> "import_from_csv", out |-> "False", df |-> <<>>,
                       res |-> ImportReturn("False",
                                            [mode |-> mode, csv_df |-> csv_df,
                                             new_items |-> <<>>, errors |-> <<>>],
                                            FileAt(_get_file_path("inventory")))]
            /\ last_load' = NoLoad
            /\ UNCHANGED <<backups, pc, pend, uuid_next>>
       ELSE \E existing_df \in (IF mode = "append" THEN load_inventory
                                ELSE {[columns |-> "none", rows |-> <<>>]}) :
         LET new_items == NewItems(csv_df, uuid_next - 1, clock)
             draws == Cardinality({i \in 1..Len(csv_df) :
                                      ~IsNa(csv_df[i].sku) /\ ~IsNa(csv_df[i].name)})
             duplicate(item) == \E j \in 1..Len(existing_df.rows) :
                                    PyEq(existing_df.rows[j].sku, item.sku)
             deduplicate == mode = "append" /\ existing_df.rows # <<>>
             final_df == IF deduplicate
                         THEN AsFloatColumns(existing_df.rows \o
                                  SelectSeq(new_items, LAMBDA item : ~duplicate(item)))
                         ELSE new_items
             errors == RowErrors(csv_df, 0) \o
                       (IF deduplicate /\ \E i \in 1..Len(new_items) : duplicate(new_items[i])
                        THEN <<[row |-> 0, why |-> "duplicate"]>> ELSE <<>>)
             locals == [mode |-> mode, csv_df |-> csv_df, new_items |-> new_items,
                        errors |-> errors]
         IN  /\ uuid_next + draws - 1 <= MaxUuid
             /\ Len(final_df) <= MaxRows
             /\ uuid_next' = uuid_next + draws
             /\ last_load' = IF mode = "append" THEN Loaded("inventory", existing_df)
                             ELSE NoLoad
             /\ IF new_items = <<>>
                THEN /\ ret' = [fn |-> "import_from_csv", out |-> "False", df |-> <<>>,
                                res |-> ImportReturn("False",
                                                     [locals EXCEPT !.errors = RowErrors(csv_df, 0)],
                                                     FileAt(_get_file_path("inventory")))]
                     /\ UNCHANGED <<backups, pc, pend>>
                ELSE BeginSaveIn("import_from_csv", "inventory", final_df, locals)
    /\ UNCHANGED <<settings, settings_file, files, clock, invoice_cart, last_number, prev_number>>

\* delete_inventory_item(df, item_id) on the loaded table: nothing at all happens when
\* the table does not hold the id, and df['item_id'] raises KeyError on a table
\* without columns
delete_inventory_item(item_id) ==
    /\ pc = "idle"
    /\ \E df \in load_inventory :
         /\ last_load' = Loaded("inventory", df)
         /\ IF df.columns # "canonical"
            THEN /\ ret' = [fn |-> "delete_inventory_item", out |-> "raise", df |-> <<>>,
                            res |-> <<>>]
                 /\ UNCHANGED <<backups, pc, pend>>
            ELSE IF \E i \in 1..Len(df.rows) : PyEq(df.rows[i].item_id, item_id)
            THEN BeginSaveIn("delete_inventory_item", "inventory",
                             SelectSeq(df.rows, LAMBDA r : ~PyEq(r.item_id, item_id)),
                             [item_id |-> item_id])
            ELSE /\ ret' = [fn |-> "delete_inventory_item", out |-> "None", df |-> <<>>,
                            res |-> <<>>]
                 /\ UNCHANGED <<backups, pc, pend>>
    /\ UNCHANGED <<settings, settings_file, files, clock, invoice_cart, uuid_next,
                   last_number, prev_number>>

\* billing_tab "Add to Invoice": add_to_cart on the chosen row
add_to_cart(i, quantity, discount_rate) ==
    /\ pc = "idle"
    /\ Len(invoice_cart) < MaxCart
    /\ \E df \in load_inventory :
         /\ i \in 1..Len(df.rows)
         /\ LET first == CHOOSE j \in 1..Len(df.rows) :
                            /\ df.rows[j].display_text = df.rows[i].display_text
                            /\ \A k \in 1..(j - 1) :
                                   df.rows[k].display_text # df.rows[i].display_text
            IN  invoice_cart' = Append(invoice_cart,
                                       CartItem(df.rows[first], quantity, discount_rate))
         /\ last_load' = Loaded("inventory", df)
    /\ ret' = NoRet
    /\ UNCHANGED <<settings, settings_file, files, backups, clock, uuid_next, pc, pend,
                   last_number, prev_number>>

\* save_invoice: the record of the invoice
InvoiceData(invoice_id, s, now, customer_name, global_discount, global_tax, cart, totals) ==
    [invoice_id |-> invoice_id,
     invoice_number |-> StrCell(InvoiceNumber(s.invoice_number_prefix, s.invoice_counter)),
     date |-> now,
     customer_name |-> StrCell(customer_name),
     global_discount_rate |-> FloatCell(global_discount),
     global_tax_rate |-> FloatCell(global_tax),
     line_items |-> cart,
     subtotal |-> FloatCell(totals.subtotal),
     total_discount |-> FloatCell(totals.total_discount),
     total_tax |-> FloatCell(totals.total_tax),
     grand_total |-> FloatCell(totals.grand_total),
     created_at |-> now, updated_at |-> now]

\* billing_tab "Save Invoice": calculate_invoice_totals, then save_invoice
save_invoice(customer_name, global_discount, global_tax) ==
    /\ pc = "idle"
    /\ invoice_cart # <<>>
    /\ Len(customer_name) > 0
    /\ \E df \in load_invoices :
         LET totals == calculate_invoice_totals(invoice_cart, global_discount, global_tax)
             invoice_data == InvoiceData(NewUuid, settings, clock, customer_name,
                                         global_discount, global_tax, invoice_cart, totals)
         IN  /\ uuid_next <= MaxUuid
             /\ settings.invoice_counter <= MaxCounter
             /\ last_load' = Loaded("invoices", df)
             /\ BeginSave("save_invoice", "invoices",
                          AsFloatColumns(Append(df.rows, invoice_data)))
    /\ uuid_next' = uuid_next + 1
    /\ UNCHANGED <<settings, settings_file, files, clock, invoice_cart, last_number, prev_number>>

\* ------------------------------------------------------------ settings_tab
SettingsWrite(new) ==
    /\ pc = "idle"
    /\ settings' = new
    /\ settings_file' \in SaveSettingsOutcomes(new)
    /\ ret' = NoRet
    /\ last_load' = NoLoad

\* load_settings: what it read, the merged settings, and whether its save_settings
\* completed
load_settings ==
    /\ pc = "idle"
    /\ settings' = load_settings_value
    /\ \E how \in SaveHows :
          /\ settings_file' = SaveSettingsAs(settings', how)
          /\ ret' = [fn |-> "load_settings",
                     out |-> IF how = "written" THEN "True" ELSE "False", df |-> <<>>,
                     res |-> <<>>]
    /\ last_load' = [table |-> "settings", st |-> settings_file.st, out |-> settings_file]

\* "Update Storage Mode"
UpdateStorageMode(storage_mode) ==
    /\ SettingsWrite([settings EXCEPT !.storage_mode = storage_mode])
    /\ UNCHANGED <<files, backups, clock, invoice_cart, uuid_next, pc, pend, last_number, prev_number>>

\* "Update Invoice Numbering"
UpdateInvoiceNumbering(invoice_prefix, invoice_counter) ==
    /\ invoice_counter >= 1
    /\ SettingsWrite([settings EXCEPT !.invoice_number_prefix = invoice_prefix,
                                      !.invoice_counter = invoice_counter])
    /\ last_number' = 0
    /\ prev_number' = 0
    /\ UNCHANGED <<files, backups, clock, invoice_cart, uuid_next, pc, pend>>

\* a new session: DataManager() runs load_settings, which ends in save_settings
NewSession ==
    /\ load_settings
    /\ invoice_cart' = <<>>
    /\ last_number' = 0
    /\ prev_number' = 0
    /\ UNCHANGED <<files, backups, clock, uuid_next, pc, pend>>

\* a second passes
Tick ==
    /\ clock < MaxClock
    /\ clock' = clock + 1
    /\ ret' = NoRet
    /\ last_load' = NoLoad
    /\ UNCHANGED <<settings, settings_file, files, backups, invoice_cart, uuid_next, pc,
                   pend, last_number, prev_number>>

\* ------------------------------------------------------------- observers
\* a save_* call returned or raised in this step
SaveEnded == ret'.fn \in {"save_inventory", "save_invoices"}

\* that call: its file, the second of its backup, what it found, how it ended
EndedSave ==
    IF pc = "idle"
    THEN LET table == IF ret'.fn = "save_inventory" THEN "inventory" ELSE "invoices"
         IN  [table |-> table, ext |-> _get_file_path(table).ext, ts |-> clock,
              before |-> FileAt(_get_file_path(table)), wrote |-> FALSE, out |-> ret'.out]
    ELSE [table |-> pend.table, ext |-> pend.ext, ts |-> pend.ts, before |-> pend.before,
          wrote |-> pc = "writing", out |-> ret'.out]

NoObserve == UNCHANGED <<expected, last_save, collided, saved_invoices, other_session>>

\* a save_* call was entered in this step: it made its backup, or raised making it
SaveBegan == pc = "idle" /\ (pc' = "backed_up" \/ SaveEnded)

\* the save_* calls: the seconds they fell in, the backups the successful ones made
ObserveSaves ==
    LET e == EndedSave
        ok == SaveEnded /\ e.out = "True"
        b == IF pc' = "backed_up" THEN [table |-> pend'.table, ext |-> pend'.ext] ELSE e
        seen == [t \in Tables |-> [m \in Modes |->
                    IF SaveBegan /\ b.table = t /\ b.ext = m
                    THEN [last_save[t][m] EXCEPT !.try = clock] ELSE last_save[t][m]]]
    IN  /\ expected' =
               IF ok /\ e.before.st # "absent"
               THEN expected \cup {[name |-> [stem |-> e.table, ts |-> e.ts, ext |-> e.ext],
                                     content |-> e.before]}
               ELSE expected
        /\ last_save' =
               IF SaveEnded
               THEN [seen EXCEPT ![e.table][e.ext] =
                       [@ EXCEPT !.ok = IF ok THEN e.ts ELSE @,
                                 !.replaced = IF ok THEN AbsentFile
                                              ELSE IF e.wrote THEN e.before ELSE @]]
               ELSE seen
        /\ collided' = collided
               \cup (IF SaveBegan /\ last_save[b.table][b.ext].try = clock
                     THEN {[table |-> b.table, ext |-> b.ext, ok |-> FALSE]} ELSE {})
               \cup (IF ok /\ last_save[e.table][e.ext].ok = e.ts
                     THEN {[table |-> e.table, ext |-> e.ext, ok |-> TRUE]} ELSE {})
        /\ UNCHANGED <<saved_invoices, other_session>>

\* the invoices whose save_invoice succeeded
ObserveInvoices ==
    /\ saved_invoices' = IF ret'.fn = "save_invoices" /\ ret'.out = "True"
                         THEN [saved_invoices EXCEPT
                                 ![pend.ext] = Append(@, pend.rows[Len(pend.rows)])]
                         ELSE saved_invoices
    /\ UNCHANGED <<expected, last_save, collided, other_session>>

\* the script of the other browser session runs from here on: each session has its
\* own st.session_state, and in it its own DataManager and its own cart
SwitchSession ==
    /\ pc = "idle"
    /\ settings' = other_session.settings
    /\ invoice_cart' = other_session.invoice_cart
    /\ other_session' = [settings |-> settings, invoice_cart |-> invoice_cart]
    /\ last_number' = 0
    /\ prev_number' = 0
    /\ ret' = NoRet
    /\ last_load' = NoLoad
    /\ UNCHANGED <<settings_file, files, backups, clock, uuid_next, pc, pend>>
    /\ UNCHANGED <<expected, last_save, collided, saved_invoices>>

\* ------------------------------------------------------------------- search
\* `needle in text`
Contains(text, needle) ==
    \E i \in 0..(Len(text) - Len(needle)) : SubSeq(text, i + 1, i + Len(needle)) = needle

\* text.replace('.', '')
WithoutDots(text) == SelectSeq(text, LAMBDA c : c # ".")

RECURSIVE LcsLen(_, _)
\* the length of the longest common subsequence of two texts: the first character of
\* `a` is left out, or matched with its first occurrence in `b`
LcsLen(a, b) ==
    IF a = <<>> \/ b = <<>> THEN 0
    ELSE IF \A i \in 1..Len(b) : b[i] # Head(a) THEN LcsLen(Tail(a), b)
    ELSE LET first == CHOOSE i \in 1..Len(b) :
                          b[i] = Head(a) /\ \A j \in 1..(i - 1) : b[j] # Head(a)
         IN  Max2(1 + LcsLen(Tail(a), SubSeq(b, first + 1, Len(b))),
                  LcsLen(Tail(a), b))

\* scores are fractions num / den, den > 0
FracLess(a, b) == a.num * b.den < b.num * a.den

FracPlus(a, i) == [num |-> a.num + i * a.den, den |-> a.den]

\* fuzz.ratio: 100 * 2 * lcs / (len(a) + len(b)), the normalized indel similarity
Ratio(a, b) == IF Len(a) + Len(b) = 0 THEN [num |-> 100, den |-> 1]
               ELSE [num |-> 200 * LcsLen(a, b), den |-> Len(a) + Len(b)]

\* the alignments of a needle of length n in `text`: the substrings of length n, and
\* the shorter ones at either end of it
Alignments(text, n) ==
    {SubSeq(text, i, i + n - 1) : i \in 1..(Len(text) - n + 1)}
        \cup {SubSeq(text, 1, k) : k \in 1..(n - 1)}
        \cup {SubSeq(text, Len(text) - k + 1, Len(text)) : k \in 1..(n - 1)}

\* fuzz.partial_ratio: fuzz.ratio at the best alignment of the shorter text in the longer
partial_ratio(s1, s2) ==
    LET needle == IF Len(s1) <= Len(s2) THEN s1 ELSE s2
        text == IF Len(s1) <= Len(s2) THEN s2 ELSE s1
        ratios == {Ratio(needle, w) : w \in Alignments(text, Len(needle))}
    IN  IF needle = <<>> THEN (IF text = <<>> THEN [num |-> 100, den |-> 1]
                                ELSE [num |-> 0, den |-> 1])
        ELSE CHOOSE r \in ratios : \A o \in ratios : ~FracLess(r, o)

\* a SKU match that earns nothing
NoSkuBoost(row, query) == 0

\* the price and size matches added up
NumericBoostSum(row, query) ==
    IF AllDigits(WithoutDots(query))
    THEN (IF Contains(Str(row.base_price), query) THEN 15 ELSE 0)
         + (IF \/ Contains(Str(row.size_mm), query)
               \/ Contains(Str(row.size_inch), query) THEN 10 ELSE 0)
    ELSE 0

\* the boosts of search_inventory for one row and the normalized query
SkuBoost(row, query) == IF Contains(Lower(Str(row.sku)), query) THEN 20 ELSE 0

NameBoost(row, query) == IF Contains(Lower(Str(row.name)), query) THEN 15 ELSE 0

CompanyBoost(row, query) == IF Contains(Lower(Str(row.company)), query) THEN 10 ELSE 0

NumericBoost(row, query) ==
    IF AllDigits(WithoutDots(query))
    THEN LET price_match == IF Contains(Str(row.base_price), query) THEN 15 ELSE 0
             size_match == IF \/ Contains(Str(row.size_mm), query)
                              \/ Contains(Str(row.size_inch), query) THEN 10 ELSE 0
         IN  Max2(price_match, size_match)
    ELSE 0

\* total_score of one row
TotalScore(row, query) ==
    FracPlus(partial_ratio(query, Str(row.search_blob)),
             SkuBoost(row, query) + NameBoost(row, query) + CompanyBoost(row, query)
                + NumericBoost(row, query))

\* a threshold of zero in place of 30
Positive(score) == FracLess([num |-> 0, den |-> 1], score)

\* `score > 30`
AboveThreshold(score) == FracLess([num |-> 30, den |-> 1], score)

RECURSIVE InsertBeforeTies(_, _)
\* an unstable descending sort: an entry goes before the earlier entries of its score
InsertBeforeTies(sorted, entry) ==
    IF sorted = <<>> THEN <<entry>>
    ELSE IF ~FracLess(entry.score, Head(sorted).score) THEN <<entry>> \o sorted
    ELSE <<Head(sorted)>> \o InsertBeforeTies(Tail(sorted), entry)

RECURSIVE InsertDescending(_, _)
\* list.sort(key=score, reverse=True) is stable: an entry goes behind every earlier
\* entry whose score is not lower
InsertDescending(sorted, entry) ==
    IF sorted = <<>> THEN <<entry>>
    ELSE IF FracLess(Head(sorted).score, entry.score) THEN <<entry>> \o sorted
    ELSE <<Head(sorted)>> \o InsertDescending(Tail(sorted), entry)

RECURSIVE SortDescending(_)
SortDescending(scores) ==
    IF scores = <<>> THEN <<>>
    ELSE InsertDescending(SortDescending(SubSeq(scores, 1, Len(scores) - 1)),
                          scores[Len(scores)])

\* df.tail(limit)
DfTail(rows, limit) ==
    SubSeq(rows, (IF limit < Len(rows) THEN Len(rows) - limit ELSE 0) + 1, Len(rows))

\* df.head(limit)
DfHead(rows, limit) == SubSeq(rows, 1, IF limit < Len(rows) THEN limit ELSE Len(rows))

\* the rows search_inventory returns on the loaded rows
SearchRows(rows, raw_query, limit) ==
    IF rows = <<>> \/ Strip(raw_query) = <<>> THEN DfHead(rows, limit)
    ELSE LET query == Strip(Lower(raw_query))
             scores == SortDescending([idx \in 1..Len(rows) |->
                           [idx |-> idx, score |-> TotalScore(rows[idx], query)]])
             top_indices == SelectSeq(DfHead(scores, limit),
                                      LAMBDA e : AboveThreshold(e.score))
         IN  IF top_indices # <<>>
             THEN [k \in 1..Len(top_indices) |-> rows[top_indices[k].idx]]
             ELSE DfHead(rows, limit)

\* search_inventory(query, limit): the call, the rows it loaded and the rows it returned
search_inventory(query, limit) ==
    /\ pc = "idle"
    /\ \E df \in load_inventory :
         /\ last_load' = Loaded("inventory", df)
         /\ ret' = [fn |-> "search_inventory", out |-> "True",
                    df |-> [query |-> query, limit |-> limit,
                            rows |-> SearchRows(df.rows, query, limit)],
                    res |-> <<>>]
    /\ UNCHANGED <<settings, settings_file, files, backups, clock, invoice_cart, uuid_next,
                   pc, pend, last_number, prev_number>>

\* ------------------------------------------------------- inputs and Next
TheForm == [sku |-> <<"A", "1">>, name |-> <<"W">>, company |-> <<>>, size_mm |-> 0,
            size_inch |-> 0, base_price |-> 1050, tax_rate |-> 0, discount_rate |-> 0]

\* the inventory file after TheForm was saved as the first item
StockedRows ==
    <<[item_id |-> StrCell(<<"u", "0">>), sku |-> StrCell(TheForm.sku),
       name |-> StrCell(TheForm.name), company |-> StrCell(TheForm.company),
       size_mm |-> FloatCell(TheForm.size_mm), size_inch |-> FloatCell(TheForm.size_inch),
       base_price |-> FloatCell(TheForm.base_price), tax_rate |-> FloatCell(TheForm.tax_rate),
       discount_rate |-> FloatCell(TheForm.discount_rate),
       search_blob |-> StrCell(<<>>), display_text |-> StrCell(<<>>),
       created_at |-> 0, updated_at |-> 0]>>

\* an installation whose parquet catalog holds that item and no invoice yet
StockedFile ==
    OkFile([i \in 1..1 |->
              [StockedRows[i] EXCEPT
                 !.search_blob = StrCell(_create_search_blob(StockedRows[i])),
                 !.display_text = StrCell(_create_display_text(StockedRows[i]))]])

InitStocked ==
    InitOn([t \in Tables |-> [m \in Modes |->
              IF t = "inventory" /\ m = "parquet" THEN StockedFile ELSE AbsentFile]],
           default_settings)

\* the invoice file after one unit of that item was billed to "b" as the first invoice
BilledFile ==
    LET cart == <<CartItem(StockedFile.rows[1], 1, 0)>>
    IN  OkFile(AsFloatColumns(
          <<InvoiceData(StrCell(<<"v", "0">>), default_settings, 0, <<"b">>, 0, 1800, cart,
                        calculate_invoice_totals(cart, 0, 1800))>>))

\* that installation after the first invoice was saved
InitBilled ==
    InitOn([t \in Tables |-> [m \in Modes |->
              IF m # "parquet" THEN AbsentFile
              ELSE IF t = "inventory" THEN StockedFile ELSE BilledFile]],
           [default_settings EXCEPT !.invoice_counter = IncrementCounter(@)])

AddItem == save_inventory_item(TheForm, <<>>)

AddToCart == add_to_cart(1, 1, 0)

SaveInvoice == save_invoice(<<"c">>, 0, 1800)

SwitchMode == \E m \in Modes : UpdateStorageMode(m)

Renumber == \E n \in 1..MaxCounter : UpdateInvoiceNumbering(settings.invoice_number_prefix, n)

\* invoicing in one session after another, in the default format
Next ==
    \/ AddToCart /\ NoObserve
    \/ SaveInvoice /\ NoObserve
    \/ WriteOpen /\ NoObserve
    \/ WriteClose /\ NoObserve
    \/ Renumber /\ NoObserve
    \/ NewSession /\ NoObserve

Spec == InitStocked /\ [][Next]_vars

\* the edit form submitted for a listed item with another price and company
Repriced == [TheForm EXCEPT !.base_price = 1275, !.company = <<"K">>]

UpdateItem ==
    \E df \in load_inventory : \E i \in 1..Len(df.rows) :
        save_inventory_item(Repriced, df.rows[i].item_id.s)

DeleteItem ==
    \E df \in load_inventory : \E i \in 1..Len(df.rows) : delete_inventory_item(df.rows[i].item_id)

\* the catalog saved again and again while the clock runs, every save_* call observed
NextStore ==
    \/ Tick /\ ObserveSaves
    \/ AddItem /\ ObserveSaves
    \/ DeleteItem /\ ObserveSaves
    \/ WriteOpen /\ ObserveSaves
    \/ WriteClose /\ ObserveSaves

SpecStore == Init /\ [][NextStore]_vars

\* one or two units of the first listed item, at no discount or at 10 %
AddSome == \E quantity \in 1..2, discount_rate \in {0, 1000} : add_to_cart(1, quantity, discount_rate)

\* a form whose SKU is written in digits
NumericSku == [TheForm EXCEPT !.sku = <<"0", "0", "7">>, !.name = <<"N">>, !.base_price = 500]

AddAnyItem == \E form \in {TheForm, NumericSku} : save_inventory_item(form, <<>>)

\* two uploads: a new item with blanks around its SKU and no rates; the SKU of TheForm
\* again, followed by a row without a name
CsvFiles ==
    LET row == [sku |-> StrCell(<<" ", "B", "2", " ">>), name |-> StrCell(<<"N", "u", "t">>),
                company |-> NaNCell, size_mm |-> IntCell(8), size_inch |-> NaNCell,
                base_price |-> FloatCell(250), tax_rate |-> NaNCell,
                discount_rate |-> NaNCell]
    IN  {<<row>>,
         <<[row EXCEPT !.sku = StrCell(TheForm.sku), !.company = StrCell(<<"K">>)],
           [row EXCEPT !.name = NaNCell]>>}

ImportCsv == \E csv_df \in CsvFiles, mode \in {"append", "replace"} : import_from_csv(csv_df, mode)

\* an installation with either storage mode selected and nothing stored yet
InitEither ==
    \E m \in Modes : InitOn([t \in Tables |-> [n \in Modes |-> AbsentFile]],
                             [default_settings EXCEPT !.storage_mode = m])

\* the catalog filled and edited through the form and through CSV uploads
NextInventory ==
    \/ AddAnyItem /\ NoObserve
    \/ UpdateItem /\ NoObserve
    \/ DeleteItem /\ NoObserve
    \/ ImportCsv /\ NoObserve
    \/ WriteOpen /\ NoObserve
    \/ WriteClose /\ NoObserve

SpecInventory == InitEither /\ [][NextInventory]_vars

\* settings files an installation can find: none, one left truncated, one written by
\* an earlier version that knew fewer keys, one carrying a key this version has no
\* default for
SettingsFiles ==
    {[st |-> "absent", val |-> default_settings],
     [st |-> "partial", val |-> default_settings],
     [st |-> "ok", val |-> [invoice_counter |-> 2, invoice_number_prefix |-> <<"X">>]],
     [st |-> "ok", val |-> [storage_mode |-> "json", theme |-> "dark"]]}

\* settings.json replaced from outside the running session
RestoreSettingsFile ==
    /\ pc = "idle"
    /\ settings_file' \in SettingsFiles
    /\ ret' = NoRet
    /\ last_load' = NoLoad
    /\ UNCHANGED <<settings, files, backups, clock, invoice_cart, uuid_next, pc, pend,
                   last_number, prev_number>>

\* sessions started on settings files of every kind, the settings edited in between
NextSettings ==
    \/ RestoreSettingsFile /\ NoObserve
    \/ NewSession /\ NoObserve
    \/ SwitchMode /\ NoObserve
    \/ Renumber /\ NoObserve

SpecSettings == Init /\ [][NextSettings]_vars

\* invoices saved on top of an invoice history, every saved invoice observed
NextInvoices ==
    \/ Tick /\ ObserveInvoices
    \/ AddSome /\ ObserveInvoices
    \/ SaveInvoice /\ ObserveInvoices
    \/ WriteOpen /\ ObserveInvoices
    \/ WriteClose /\ ObserveInvoices

SpecInvoices == InitBilled /\ [][NextInvoices]_vars

\* the stocked catalog edited while the storage format is switched back and forth
NextModes ==
    \/ SwitchMode /\ NoObserve
    \/ AddItem /\ NoObserve
    \/ DeleteItem /\ NoObserve
    \/ WriteOpen /\ NoObserve
    \/ WriteClose /\ NoObserve

SpecModes == InitStocked /\ [][NextModes]_vars

\* billing_tab "Clear Cart"
clear_cart ==
    /\ pc = "idle"
    /\ invoice_cart # <<>>
    /\ invoice_cart' = <<>>
    /\ ret' = NoRet
    /\ last_load' = NoLoad
    /\ UNCHANGED <<settings, settings_file, files, backups, clock, uuid_next, pc, pend,
                   last_number, prev_number>>

\* billing_tab "Remove Item": invoice_cart.pop(remove_idx - 1)
remove_cart_item(remove_idx) ==
    /\ pc = "idle"
    /\ remove_idx \in 1..Len(invoice_cart)
    /\ invoice_cart' = SubSeq(invoice_cart, 1, remove_idx - 1)
                          \o SubSeq(invoice_cart, remove_idx + 1, Len(invoice_cart))
    /\ ret' = NoRet
    /\ last_load' = NoLoad
    /\ UNCHANGED <<settings, settings_file, files, backups, clock, uuid_next, pc, pend,
                   last_number, prev_number>>

\* billing_tab "Invoice Totals": the totals shown for the cart and the two global rates
show_totals(global_discount, global_tax) ==
    /\ pc = "idle"
    /\ invoice_cart # <<>>
    /\ ret' = [fn |-> "calculate_invoice_totals", out |-> "True",
               df |-> [global_discount |-> global_discount, global_tax |-> global_tax,
                       totals |-> calculate_invoice_totals(invoice_cart, global_discount,
                                                           global_tax)],
               res |-> <<>>]
    /\ last_load' = NoLoad
    /\ UNCHANGED <<settings, settings_file, files, backups, clock, invoice_cart, uuid_next,
                   pc, pend, last_number, prev_number>>

\* a catalog of three priced items
PricedForms ==
    <<[TheForm EXCEPT !.base_price = 10000],
      [TheForm EXCEPT !.sku = <<"B", "2">>, !.base_price = 5000],
      [TheForm EXCEPT !.sku = <<"C", "3">>, !.base_price = 2469]>>

PricedRows ==
    [i \in 1..Len(PricedForms) |->
       [StockedRows[1] EXCEPT !.item_id = StrCell(<<"u">> \o Digits(i)),
                              !.sku = StrCell(PricedForms[i].sku),
                              !.base_price = FloatCell(PricedForms[i].base_price)]]

PricedFile ==
    OkFile([i \in 1..Len(PricedRows) |->
              [PricedRows[i] EXCEPT
                 !.search_blob = StrCell(_create_search_blob(PricedRows[i])),
                 !.display_text = StrCell(_create_display_text(PricedRows[i]))]])

InitPriced ==
    InitOn([t \in Tables |-> [m \in Modes |->
              IF t = "inventory" /\ m = "parquet" THEN PricedFile ELSE AbsentFile]],
           default_settings)

Quantities == {1, 3}
LineDiscounts == {0, 1000, 5000}
GlobalDiscounts == {0, 1000}
GlobalTaxes == {0, 1800}

AddLine == \E i \in 1..Len(PricedForms), quantity \in Quantities, discount_rate \in LineDiscounts :
               add_to_cart(i, quantity, discount_rate)

ClearCart == clear_cart

RemoveItem == \E remove_idx \in 1..MaxCart + 1 : remove_cart_item(remove_idx)

ShowTotals == \E global_discount \in GlobalDiscounts, global_tax \in GlobalTaxes :
                  show_totals(global_discount, global_tax)

\* a cart filled from the priced catalog and its totals shown
NextPricing ==
    \/ AddLine /\ NoObserve
    \/ ClearCart /\ NoObserve
    \/ RemoveItem /\ NoObserve
    \/ ShowTotals /\ NoObserve

SpecPricing == InitPriced /\ [][NextPricing]_vars

\* a catalog of three items to search
SearchForms ==
    <<[TheForm EXCEPT !.sku = <<"A", "1", "0", "0">>,
                      !.name = <<"R", "e", "d", " ", "W", "i", "d", "g", "e", "t">>],
      [TheForm EXCEPT !.sku = <<"B", "2", "0", "0">>,
                      !.name = <<"B", "l", "u", "e", " ", "W", "i", "d", "g", "e", "t">>],
      [TheForm EXCEPT !.sku = <<"R", "7">>, !.company = <<"B">>, !.size_mm = 750,
                      !.base_price = 750]>>

SearchRowsStored ==
    [i \in 1..Len(SearchForms) |->
       [StockedRows[1] EXCEPT !.item_id = StrCell(<<"u">> \o Digits(i)),
                              !.sku = StrCell(SearchForms[i].sku),
                              !.name = StrCell(SearchForms[i].name),
                              !.company = StrCell(SearchForms[i].company),
                              !.size_mm = FloatCell(SearchForms[i].size_mm),
                              !.base_price = FloatCell(SearchForms[i].base_price)]]

SearchFile ==
    OkFile([i \in 1..Len(SearchRowsStored) |->
              [SearchRowsStored[i] EXCEPT
                 !.search_blob = StrCell(_create_search_blob(SearchRowsStored[i])),
                 !.display_text = StrCell(_create_display_text(SearchRowsStored[i]))]])

InitSearch ==
    InitOn([t \in Tables |-> [m \in Modes |->
              IF t = "inventory" /\ m = "parquet" THEN SearchFile ELSE AbsentFile]],
           default_settings)

Queries == {<<>>, <<" ">>, <<"A", "1", "0", "0">>, <<"W">>, <<" ", "b">>,
            <<"7", ".", "5">>, <<"1", "0">>, <<"z", "z", "z", "z", "7">>}

Search == \E query \in Queries, limit \in 1..MaxLimit : search_inventory(query, limit)

\* the catalog searched while items are deleted from it
NextSearch ==
    \/ Search /\ NoObserve
    \/ DeleteItem /\ NoObserve
    \/ WriteOpen /\ NoObserve
    \/ WriteClose /\ NoObserve

SpecSearch == InitSearch /\ [][NextSearch]_vars

\* the inventory file of an installation whose first item was saved from `form`
StockedWith(form) ==
    LET row == [StockedRows[1] EXCEPT !.sku = StrCell(form.sku), !.name = StrCell(form.name),
                                      !.base_price = FloatCell(form.base_price)]
    IN  OkFile(<<[row EXCEPT !.search_blob = StrCell(_create_search_blob(row)),
                             !.display_text = StrCell(_create_display_text(row))]>>)

\* an installation in either format whose catalog holds one item
InitStockedEither ==
    \E m \in Modes, form \in {TheForm, NumericSku} :
        InitOn([t \in Tables |-> [n \in Modes |->
                  IF t = "inventory" /\ n = m THEN StockedWith(form) ELSE AbsentFile]],
               [default_settings EXCEPT !.storage_mode = m])

\* uploads: a new item; the SKU of TheForm again and a row without a name; a row whose
\* SKU is one blank and a row whose price is no number; a row taxed at 150 percent; a
\* file of headers only
Uploads ==
    LET row == [sku |-> StrCell(<<" ", "B", "2", " ">>), name |-> StrCell(<<"N", "u", "t">>),
                company |-> NaNCell, size_mm |-> IntCell(8), size_inch |-> NaNCell,
                base_price |-> FloatCell(250), tax_rate |-> NaNCell,
                discount_rate |-> NaNCell]
    IN  {<<row>>,
         <<[row EXCEPT !.sku = StrCell(TheForm.sku), !.company = StrCell(<<"K">>)],
           [row EXCEPT !.name = NaNCell]>>,
         <<[row EXCEPT !.sku = StrCell(<<" ">>)],
           [row EXCEPT !.sku = StrCell(<<"R", "7">>), !.base_price = StrCell(<<"x">>)]>>,
         <<[row EXCEPT !.sku = StrCell(<<"W", "4">>), !.tax_rate = IntCell(150)]>>,
         <<>>}

ImportUpload == \E csv_df \in Uploads, mode \in {"append", "replace"} : import_from_csv(csv_df, mode)

\* CSV files imported one after another into a stocked catalog
NextImport ==
    \/ ImportUpload /\ NoObserve
    \/ WriteOpen /\ NoObserve
    \/ WriteClose /\ NoObserve

SpecImport == InitStockedEither /\ [][NextImport]_vars

\* what is typed into the form's "Item ID (leave empty for new)" field
TypedIds == {<<"0", "0", "7">>, <<"7">>}

\* the form submitted with an Item ID typed in: an update when the catalog has the
\* id, else an item added under that id
SaveTypedItem ==
    \E form \in {TheForm, Repriced}, item_id \in TypedIds : save_inventory_item(form, item_id)

\* the catalog edited through the form, with generated and with typed ids
NextIds ==
    \/ AddAnyItem /\ NoObserve
    \/ SaveTypedItem /\ NoObserve
    \/ DeleteItem /\ NoObserve
    \/ WriteOpen /\ NoObserve
    \/ WriteClose /\ NoObserve

SpecIds == InitEither /\ [][NextIds]_vars

\* an id that no record has
AbsentId == StrCell(<<"u", "0">>)

\* delete_inventory_item called with the id of a listed item or with AbsentId
DeleteAnyItem ==
    \E df \in load_inventory :
        \E item_id \in {df.rows[i].item_id : i \in 1..Len(df.rows)} \cup {AbsentId} :
            delete_inventory_item(item_id)

\* a catalog filled through the form and through uploads, and deletions from it
NextDelete ==
    \/ AddAnyItem /\ NoObserve
    \/ ImportCsv /\ NoObserve
    \/ DeleteAnyItem /\ NoObserve
    \/ WriteOpen /\ NoObserve
    \/ WriteClose /\ NoObserve

SpecDelete == InitEither /\ [][NextDelete]_vars

\* two browser sessions opened on the stocked catalog, invoicing in turns
NextSessions ==
    \/ AddToCart /\ ObserveInvoices
    \/ SaveInvoice /\ ObserveInvoices
    \/ WriteOpen /\ ObserveInvoices
    \/ WriteClose /\ ObserveInvoices
    \/ SwitchSession

SpecSessions == InitStocked /\ [][NextSessions]_vars

\* ------------------------------------------------------------------ claims
InvoiceFile(m) == files["invoices"][m]

\* C1: no two invoices of an invoice table carry the same invoice_number, whatever
\* saves, failed saves, settings updates and new sessions came before.
C1_InvoiceNumbersNeverReused ==
    \A m \in Modes :
        InvoiceFile(m).st = "ok" =>
            \A i, j \in 1..Len(InvoiceFile(m).rows) :
                i # j => InvoiceFile(m).rows[i].invoice_number
                            # InvoiceFile(m).rows[j].invoice_number

C3_SuccessfulSavesLeaveBackups ==
    pc = "idle" =>
        \A b \in expected :
            [table |-> b.name.stem, ext |-> b.name.ext, ok |-> TRUE] \notin collided
                => b \in backups

\* C3, amended: the same, when no two save_* calls on the file, failed ones
\* included, fell in one second.
C3_SavesInDistinctSecondsLeaveBackups ==
    \A b \in expected :
        [table |-> b.name.stem, ext |-> b.name.ext, ok |-> FALSE] \notin collided
            => b \in backups

\* three successful saves of the catalog, one per second: both overwritten versions
\* are in the backup directory
C3_Witness ==
    /\ collided = {}
    /\ Cardinality({b \in expected : b.name.stem = "inventory" /\ b.name.ext = "parquet"
                                      /\ b.content.st = "ok"}) = 2
    /\ expected \subseteq backups
    /\ ret.fn = "save_inventory" /\ ret.out = "True"

\* C4: while a file that existed is being written, and as long as a failed write has
\* left it partially written, some backup of it holds its content from before that write.
C4_BackupCoversWrite ==
    /\ pc = "writing" /\ pend.before.st # "absent"
          => \E b \in backups : /\ b.name.stem = pend.table /\ b.name.ext = pend.ext
                                 /\ b.content = pend.before
    /\ \A t \in Tables, m \in Modes :
          files[t][m].st = "partial" /\ last_save[t][m].replaced.st = "ok"
              => \E b \in backups : /\ b.name.stem = t /\ b.name.ext = m
                                     /\ b.content = last_save[t][m].replaced

\* C5: save_inventory and save_invoices end by returning, never by raising.
C5_SaveNeverRaises ==
    ret.fn \in {"save_inventory", "save_invoices"} => ret.out \in {"True", "False"}

\* C6: what a load hands its caller for a file that cannot be parsed differs from
\* what it hands for an absent file, the empty table with the canonical columns.
C6_ParseFailureSurfaced ==
    last_load.st = "partial" => last_load.out # EmptyCanonical

\* C7: every record of a stored catalog carries the search_blob and the display_text
\* that _create_search_blob and _create_display_text give for it.
C7_DerivedFieldsConsistent ==
    \A m \in Modes :
        files["inventory"][m].st = "ok" =>
            \A i \in 1..Len(files["inventory"][m].rows) :
                LET row == files["inventory"][m].rows[i]
                IN  /\ row.search_blob = StrCell(_create_search_blob(row))
                    /\ row.display_text = StrCell(_create_display_text(row))

\* a save has just stored a table that was handed over with an empty search_blob and
\* display_text in one of its records
C7_Witness ==
    /\ ret.fn = "save_inventory" /\ ret.out = "True"
    /\ \E i \in 1..Len(ret.df) : /\ ret.df[i].search_blob = StrCell(<<>>)
                                  /\ ret.df[i].display_text = StrCell(<<>>)
    /\ \A m \in Modes : files["inventory"][m].st = "ok" =>
          \A i \in 1..Len(files["inventory"][m].rows) :
              /\ files["inventory"][m].rows[i].search_blob.s # <<>>
              /\ files["inventory"][m].rows[i].display_text.s # <<>>

SourceFields == TextFields \cup NumFields \cup {"created_at", "updated_at"}

\* the same value: cells by Python ==, timestamps as they are
SameValue(f, a, b) == IF f \in CellFields THEN PyEq(a, b) ELSE a = b

\* C8: load_inventory right after save_inventory(T) returned True gives the records
\* of T in order, with the value T has in every field but search_blob and display_text.
C8_RoundTrip ==
    ret.fn = "save_inventory" /\ ret.out = "True" =>
        \A df \in load_inventory :
            /\ Len(df.rows) = Len(ret.df)
            /\ \A i \in 1..Len(ret.df), f \in SourceFields :
                   SameValue(f, df.rows[i][f], ret.df[i][f])

\* C9: whenever the invoice file is whole, it holds the invoices saved so far, each as
\* it was saved, in the order they were saved.
C9_SavedInvoicesKept ==
    \A m \in Modes :
        pc = "idle" /\ InvoiceFile(m).st = "ok" => InvoiceFile(m).rows = saved_invoices[m]

\* the files and backups of table t kept in format m
Kept(fs, dir, t, m) == <<fs[t][m], {b \in dir : b.name.stem = t /\ b.name.ext = m}>>

\* C10: a step leaves the files and backups of the format that is not the selected one
\* as they were; a table with no file in the selected format loads empty; a parquet
\* file loads as it was written whenever parquet is selected again.
C10_SwitchMigratesNothing ==
    /\ [](\A df \in load_inventory :
            /\ files["inventory"][settings.storage_mode].st = "absent"
                  => df = EmptyCanonical
            /\ settings.storage_mode = "parquet" /\ files["inventory"]["parquet"].st = "ok"
                  => df.rows = files["inventory"]["parquet"].rows)
    /\ [][\A t \in Tables, m \in Modes :
             m # settings.storage_mode
                 => Kept(files', backups', t, m) = Kept(files, backups, t, m)]_vars

\* parquet selected again after the catalog was saved as json: both files are there,
\* each with its own rows, and a json backup was made
C10_Witness ==
    /\ settings.storage_mode = "parquet"
    /\ files["inventory"]["json"].st = "ok"
    /\ files["inventory"]["parquet"].st = "ok"
    /\ files["inventory"]["json"].rows # files["inventory"]["parquet"].rows
    /\ \E b \in backups : b.name.ext = "json"
    /\ load_inventory = {[columns |-> "canonical", rows |-> files["inventory"]["parquet"].rows]}

\* C11: when load_settings returns, the settings hold every key of the file it read
\* with the persisted value and every other default key with its default, and the
\* file holds exactly these settings if the write at its end completed.
C11_SettingsMerge ==
    ret.fn = "load_settings" =>
        LET read == last_load.out
            persisted == IF read.st = "ok" THEN DOMAIN read.val ELSE {}
        IN  /\ DOMAIN settings = DOMAIN default_settings \cup persisted
            /\ \A k \in persisted : settings[k] = read.val[k]
            /\ \A k \in DOMAIN default_settings \ persisted :
                   settings[k] = default_settings[k]
            /\ ret.out = "True" => settings_file = [st |-> "ok", val |-> settings]

\* a session started on a file that lacks default keys and carries an unknown one:
\* the file now holds the defaults it lacked next to the values it had
C11_Witness ==
    /\ ret.fn = "load_settings" /\ ret.out = "True"
    /\ last_load.out.st = "ok"
    /\ "theme" \in DOMAIN last_load.out.val
    /\ "invoice_counter" \notin DOMAIN last_load.out.val
    /\ settings_file.st = "ok"
    /\ settings_file.val.theme = "dark"
    /\ settings_file.val.storage_mode = "json"
    /\ settings_file.val.invoice_counter = DefaultInvoiceCounter


\* the sum of the cart's line totals in thousandths (no line of these catalogs has a
\* finer fraction)
RECURSIVE SumThousandths(_)
SumThousandths(cart) ==
    IF cart = <<>> THEN 0
    ELSE cart[1].line_total.m * Pow10(3 - cart[1].line_total.e) + SumThousandths(Tail(cart))

\* x / n rounded half-up to an integer, n even
RoundDiv(x, n) == (x + n \div 2) \div n

\* C12: the totals shown are the exact sum of the line totals, that sum times the
\* discount percentage, the discounted sum times the tax percentage, and the discounted
\* sum plus that tax, each rounded once from its exact value, half-up, to hundredths.
C12_TotalsRoundedOnce ==
    ret.fn = "calculate_invoice_totals" =>
        LET subtotal3 == SumThousandths(invoice_cart)
            discount5 == subtotal3 * (ret.df.global_discount \div 100)
            after5 == 100 * subtotal3 - discount5
            tax7 == after5 * (ret.df.global_tax \div 100)
        IN  /\ ret.df.global_discount % 100 = 0 /\ ret.df.global_tax % 100 = 0
            /\ \A i \in 1..Len(invoice_cart) : invoice_cart[i].line_total.e <= 3
            /\ ret.df.totals.subtotal = RoundDiv(subtotal3, 10)
            /\ ret.df.totals.total_discount = RoundDiv(discount5, 1000)
            /\ ret.df.totals.total_tax = RoundDiv(tax7, 100000)
            /\ ret.df.totals.grand_total = (after5 + (tax7 + 50000) \div 100) \div 1000

\* the totals of lines 270.00 and 50.00 at discount 0 and tax 18 were shown
C12_Witness ==
    /\ ret.fn = "calculate_invoice_totals"
    /\ Len(invoice_cart) = 2
    /\ invoice_cart[1].line_total = DecOfInt(270)
    /\ invoice_cart[2].line_total = DecOfInt(50)
    /\ ret.df.global_discount = 0 /\ ret.df.global_tax = 1800
    /\ ret.df.totals = [subtotal |-> 32000, total_discount |-> 0, total_tax |-> 5760,
                        grand_total |-> 37760]


\* C13: every line total in the cart is rounded to hundredths: it has at most two
\* fractional digits.
C13_LineTotalsRounded ==
    \A i \in 1..Len(invoice_cart) : invoice_cart[i].line_total.e <= 2

\* C14: every cart line holds the catalog price of its item, and its line total is
\* exactly unit_price * quantity - (unit_price * quantity) * (discount_rate / 100),
\* nothing on the way rounded.
C14_LineAmountExact ==
    \A i \in 1..Len(invoice_cart) :
        LET line == invoice_cart[i]
        IN  /\ \E j \in 1..Len(PricedForms) :
                   /\ line.item_id = PricedFile.rows[j].item_id
                   /\ line.unit_price = PricedForms[j].base_price
            /\ line.line_total.e <= 6
            /\ line.line_total.m * Pow10(6 - line.line_total.e)
                   = line.unit_price * line.quantity * (10000 - line.discount_rate)

\* three units at 100.00 with a line discount of 10 percent were added: the line is 270
C14_Witness ==
    \E i \in 1..Len(invoice_cart) :
        /\ invoice_cart[i].unit_price = 10000
        /\ invoice_cart[i].quantity = 3
        /\ invoice_cart[i].discount_rate = 1000
        /\ invoice_cart[i].line_total = DecOfInt(270)


\* the orders in which the lines of a cart can stand
Reorderings(cart) ==
    {[i \in 1..Len(cart) |-> cart[p[i]]] :
        p \in {q \in [1..Len(cart) -> 1..Len(cart)] :
                  \A a, b \in 1..Len(cart) : q[a] = q[b] => a = b}}

Searched == ret.fn = "search_inventory"

Store == last_load.out.rows

Normalized == Strip(Lower(ret.df.query))

Scored(i) == TotalScore(Store[i], Normalized)

SameScore(a, b) == ~FracLess(a, b) /\ ~FracLess(b, a)

\* the place of store row i among all rows by score descending, ties in store order
Rank(i) ==
    1 + Cardinality({j \in 1..Len(Store) :
                        \/ FracLess(Scored(i), Scored(j))
                        \/ SameScore(Scored(i), Scored(j)) /\ j < i})

\* C16: a search with a non-empty query and some record scoring above 30 returns the
\* records scoring above 30 whose place by score descending, ties in store order, is
\* within the limit, each at that place.
C16_RankedAboveThreshold ==
    (/\ Searched
     /\ Normalized # <<>>
     /\ \E i \in 1..Len(Store) : FracLess([num |-> 30, den |-> 1], Scored(i)))
    => LET kept == {i \in 1..Len(Store) :
                       /\ FracLess([num |-> 30, den |-> 1], Scored(i))
                       /\ Rank(i) <= ret.df.limit}
       IN  /\ Len(ret.df.rows) = Cardinality(kept)
           /\ \A i \in kept : ret.df.rows[Rank(i)] = Store[i]

\* "7.5" searched in the three-item catalog with limit 2: the third item, the only one
\* priced 7.5, comes first, then the first item; the second, tied with it, is cut off
C16_Witness ==
    /\ Searched
    /\ ret.df.query = <<"7", ".", "5">> /\ ret.df.limit = 2
    /\ Len(Store) = 3
    /\ ret.df.rows = <<Store[3], Store[1]>>


\* the first `limit` rows of the store, in store order
FirstOfStore ==
    [k \in 1..(IF ret.df.limit < Len(Store) THEN ret.df.limit ELSE Len(Store)) |-> Store[k]]

\* C17: a search with a non-empty query that scores no record of a non-empty store
\* above 30 returns the first `limit` records in store order; and whatever the query, a
\* search with limit >= 1 returns no record only when the store holds none.
C17_ThresholdFallback ==
    Searched =>
        /\ (/\ Normalized # <<>>
            /\ Store # <<>>
            /\ \A i \in 1..Len(Store) : ~FracLess([num |-> 30, den |-> 1], Scored(i)))
           => ret.df.rows = FirstOfStore
        /\ (ret.df.limit >= 1 /\ ret.df.rows = <<>>) => Store = <<>>

\* "zzzz7" searched in the three-item catalog with limit 2: no item scores above 30, the
\* third scores highest, and the first two items are returned
C17_Witness ==
    /\ Searched
    /\ ret.df.query = <<"z", "z", "z", "z", "7">> /\ ret.df.limit = 2
    /\ Len(Store) = 3
    /\ \A i \in 1..3 : ~FracLess([num |-> 30, den |-> 1], Scored(i))
    /\ FracLess(Scored(1), Scored(3))
    /\ ret.df.rows = <<Store[1], Store[2]>>


\* the boosts the query earns on store row i, field by field
FieldBoosts(i) ==
    LET row == Store[i]
        q == Normalized
        price == IF Contains(Str(row.base_price), q) THEN 15 ELSE 0
        size == IF Contains(Str(row.size_mm), q) \/ Contains(Str(row.size_inch), q)
                THEN 10 ELSE 0
    IN  (IF Contains(Lower(Str(row.sku)), q) THEN 20 ELSE 0)
        + (IF Contains(Lower(Str(row.name)), q) THEN 15 ELSE 0)
        + (IF Contains(Lower(Str(row.company)), q) THEN 10 ELSE 0)
        + (IF AllDigits(WithoutDots(q)) THEN (IF price >= size THEN price ELSE size) ELSE 0)

\* C18: the total score of every record searched with a non-empty query is its blob
\* score, a value from 0 to 100, plus 20, 15 and 10 for the query found in the
\* lower-cased sku, name and company, plus, for a query that is all digits once its
\* dots are removed, the larger of 15 for the query found in the text of base_price and
\* 10 for it found in the text of a size field; the boosts add up to at most 60.
C18_ScoreComposition ==
    (Searched /\ Normalized # <<>>) =>
        \A i \in 1..Len(Store) :
            LET blob == partial_ratio(Normalized, Str(Store[i].search_blob))
            IN  /\ 0 <= blob.num /\ blob.num <= 100 * blob.den
                /\ FieldBoosts(i) <= 60
                /\ SameScore(Scored(i), [num |-> blob.num + FieldBoosts(i) * blob.den,
                                         den |-> blob.den])

\* "7.5" was searched and the third item, 7.5 in both its price and its size, scored
\* its blob score of 100 plus 15
C18_Witness ==
    /\ Searched
    /\ ret.df.query = <<"7", ".", "5">>
    /\ Len(Store) = 3
    /\ Contains(Str(Store[3].base_price), Normalized)
    /\ Contains(Str(Store[3].size_mm), Normalized)
    /\ SameScore(Scored(3), [num |-> 115, den |-> 1])


\* the query is found in the lower-cased sku of store row i
InSku(i) == Contains(Lower(Str(Store[i].sku)), Normalized)

\* the query is found in none of sku, name and company of store row i
InNoKeyField(i) ==
    /\ ~InSku(i)
    /\ ~Contains(Lower(Str(Store[i].name)), Normalized)
    /\ ~Contains(Lower(Str(Store[i].company)), Normalized)

\* C19: in every search with a non-empty query, a record whose sku contains the query
\* scores strictly higher than a record none of whose sku, name and company contains
\* it, and wherever the latter is returned the former is returned ahead of it.
C19_SkuMatchRanksHigher ==
    (Searched /\ Normalized # <<>>) =>
        \A a, b \in 1..Len(Store) :
            (InSku(a) /\ InNoKeyField(b)) =>
                /\ FracLess(Scored(b), Scored(a))
                /\ \A k \in 1..Len(ret.df.rows) :
                       ret.df.rows[k] = Store[b] =>
                           \E h \in 1..(k - 1) : ret.df.rows[h] = Store[a]

\* the catalog holds {A100, Red Widget} and {B200, Blue Widget}; "A100" was searched and
\* returned the first item ahead of the second
C19_Witness ==
    /\ Searched
    /\ ret.df.query = <<"A", "1", "0", "0">> /\ ret.df.limit = 2
    /\ Len(Store) = 2
    /\ Store[1].sku = StrCell(<<"A", "1", "0", "0">>)
    /\ Store[1].name = StrCell(<<"R", "e", "d", " ", "W", "i", "d", "g", "e", "t">>)
    /\ Store[2].sku = StrCell(<<"B", "2", "0", "0">>)
    /\ Store[2].name = StrCell(<<"B", "l", "u", "e", " ", "W", "i", "d", "g", "e", "t">>)
    /\ FracLess(Scored(2), Scored(1))
    /\ ret.df.rows = <<Store[1], Store[2]>>


\* C20: a search whose query is empty once lower-cased and stripped returns the first
\* `limit` records of the store, as many as there are, each at its place in the store.
C20_EmptyQueryHead ==
    (Searched /\ Normalized = <<>>) =>
        /\ Len(ret.df.rows) <= ret.df.limit
        /\ Len(ret.df.rows) <= Len(Store)
        /\ Len(ret.df.rows) = ret.df.limit \/ Len(ret.df.rows) = Len(Store)
        /\ \A k \in 1..Len(ret.df.rows) : ret.df.rows[k] = Store[k]

\* a query of one blank was searched in the three-item catalog with limit 2 and returned
\* the first two items
C20_Witness ==
    /\ Searched
    /\ ret.df.query = <<" ">> /\ ret.df.limit = 2
    /\ Len(Store) = 3
    /\ ret.df.rows = <<Store[1], Store[2]>>


\* an import_from_csv call has just returned success
Imported ==
    /\ ret.fn = "save_inventory" /\ ret.out = "True"
    /\ DOMAIN ret.res # {}
    /\ ret.res.op = "import_from_csv"

\* the inventory file now, and the one the import found
StoredNow == files["inventory"][settings.storage_mode].rows

StoredBefore == ret.res.before.rows

ItemFields == {"sku", "name", "company"} \cup NumFields

\* a CSV row that has a sku and a name and numbers where it has any
ValidCsvRow(row) ==
    /\ ~IsNa(row.sku) /\ ~IsNa(row.name)
    /\ \A f \in NumFields : IsNa(row[f]) \/ FloatParsable(row[f])

\* the value a valid CSV row gives field f of its record
CsvValue(row, f) ==
    IF f \in NumFields
    THEN (IF ~IsNa(row[f]) THEN row[f]
          ELSE IF f = "tax_rate" THEN FloatCell(settings.default_tax_rate)
          ELSE IF f = "discount_rate" THEN FloatCell(settings.default_discount_rate)
          ELSE FloatCell(0))
    ELSE IF IsNa(row[f]) THEN StrCell(<<>>) ELSE StrCell(Strip(Str(row[f])))

\* record `rec` holds the fields of the valid CSV row `row`
HoldsCsvRow(rec, row) == \A f \in ItemFields : PyEq(rec[f], CsvValue(row, f))

\* C21: after a successful import the inventory file holds, in append mode, the
\* records it held before, in their order and with their item fields, item_id and
\* created_at unchanged, followed by the valid CSV rows whose SKU no earlier record
\* had; in replace mode the valid CSV rows and no record it held before.
C21_ImportModes ==
    Imported =>
        LET valid == SelectSeq(ret.res.csv_df, ValidCsvRow)
            fresh == SelectSeq(valid, LAMBDA row :
                         \A j \in 1..Len(StoredBefore) :
                             ~PyEq(StoredBefore[j].sku, CsvValue(row, "sku")))
        IN  IF ret.res.mode = "append"
            THEN /\ Len(StoredNow) = Len(StoredBefore) + Len(fresh)
                 /\ \A j \in 1..Len(StoredBefore) :
                        \A f \in ItemFields \cup {"item_id", "created_at"} :
                            SameValue(f, StoredNow[j][f], StoredBefore[j][f])
                 /\ \A k \in 1..Len(fresh) :
                        HoldsCsvRow(StoredNow[Len(StoredBefore) + k], fresh[k])
            ELSE /\ Len(StoredNow) = Len(valid)
                 /\ \A k \in 1..Len(valid) : HoldsCsvRow(StoredNow[k], valid[k])
                 /\ \A k \in 1..Len(StoredNow), j \in 1..Len(StoredBefore) :
                        StoredNow[k].item_id # StoredBefore[j].item_id


\* an import_from_csv call has just returned, successfully or not, after reading rows
ImportReturned ==
    /\ ret.fn \in {"save_inventory", "import_from_csv"}
    /\ ret.out \in {"True", "False"}
    /\ DOMAIN ret.res # {}
    /\ ret.res.op = "import_from_csv"

\* the records of the inventory file that the import just returned has added
AddedByImport ==
    SelectSeq(StoredNow, LAMBDA rec :
        \A j \in 1..Len(StoredBefore) : rec.item_id # StoredBefore[j].item_id)

\* C22: an import reports exactly one error for each CSV row without a sku or without a
\* name, a successful one has stored every row that has both and numbers where it has
\* any (unless its SKU was in the catalog), and every record it added has a non-empty
\* sku and a non-empty name.
C22_RowsRejectedOneByOne ==
    /\ ImportReturned =>
          \A i \in 1..Len(ret.res.csv_df) :
              Cardinality({e \in 1..Len(ret.res.errors) :
                              /\ ret.res.errors[e].row = i + 1
                              /\ ret.res.errors[e].why = "required"})
                 = IF IsNa(ret.res.csv_df[i].sku) \/ IsNa(ret.res.csv_df[i].name) THEN 1 ELSE 0
    /\ Imported =>
          /\ \A i \in 1..Len(ret.res.csv_df) :
                 (/\ ValidCsvRow(ret.res.csv_df[i])
                  /\ \A j \in 1..Len(StoredBefore) :
                         ~PyEq(StoredBefore[j].sku, CsvValue(ret.res.csv_df[i], "sku")))
                 => \E k \in 1..Len(AddedByImport) :
                        HoldsCsvRow(AddedByImport[k], ret.res.csv_df[i])
          /\ \A k \in 1..Len(AddedByImport) :
                 /\ Str(AddedByImport[k].sku) # <<>>
                 /\ Str(AddedByImport[k].name) # <<>>


\* C23: every record of a stored catalog has a base_price and sizes that are not
\* negative, and a tax_rate and a discount_rate from 0 to 100.
C23_ItemFieldRanges ==
    \A m \in Modes :
        files["inventory"][m].st = "ok" =>
            \A i \in 1..Len(files["inventory"][m].rows) :
                LET row == files["inventory"][m].rows[i]
                IN  /\ Hundredths(row.base_price) >= 0
                    /\ Hundredths(row.size_mm) >= 0
                    /\ Hundredths(row.size_inch) >= 0
                    /\ Hundredths(row.tax_rate) >= 0 /\ Hundredths(row.tax_rate) <= 10000
                    /\ Hundredths(row.discount_rate) >= 0
                    /\ Hundredths(row.discount_rate) <= 10000


\* save_inventory_item has just returned from a successful save, after `action`
ItemSaved(action) ==
    /\ ret.fn = "save_inventory" /\ ret.out = "True"
    /\ DOMAIN ret.res # {}
    /\ ret.res.op = "save_inventory_item"
    /\ ret.res.locals.action = action

\* C24: an update leaves the catalog with as many records as before, each with the
\* item_id and the created_at it had, and no two records of a stored catalog have
\* the same item_id.
C24_ItemIdsStable ==
    /\ ItemSaved("updated") =>
          /\ Len(StoredNow) = Len(ret.res.before.rows)
          /\ \A i \in 1..Len(StoredNow) :
                 /\ StoredNow[i].item_id = ret.res.before.rows[i].item_id
                 /\ StoredNow[i].created_at = ret.res.before.rows[i].created_at
    /\ \A m \in Modes :
          files["inventory"][m].st = "ok" =>
              \A i, j \in 1..Len(files["inventory"][m].rows) :
                  i # j => files["inventory"][m].rows[i].item_id
                              # files["inventory"][m].rows[j].item_id


\* delete_inventory_item has just returned from a successful save
ItemDeleted ==
    /\ ret.fn = "save_inventory" /\ ret.out = "True"
    /\ DOMAIN ret.res # {}
    /\ ret.res.op = "delete_inventory_item"

\* the item_id column of a table
ItemIds(rows) == [i \in 1..Len(rows) |-> rows[i].item_id]

\* delete_inventory_item returns without having called save_inventory
DeleteWithoutSave == ret'.fn = "delete_inventory_item"

\* C25: a delete of an id the catalog does not hold returns without raising and leaves
\* the inventory files and the backup directory as they were, and a delete of an id it
\* holds leaves the catalog with the records it had, in their order, less that one.
C25_DeleteAbsentIsNoOp ==
    /\ [][DeleteWithoutSave =>
            /\ ret'.out # "raise"
            /\ files' = files /\ backups' = backups]_vars
    /\ [](ItemDeleted =>
            /\ Len(StoredNow) = Len(ret.res.before.rows) - 1
            /\ ItemIds(StoredNow)
                 = ItemIds(SelectSeq(ret.res.before.rows,
                                     LAMBDA r : r.item_id # ret.res.locals.item_id)))


\* save_invoices returns True to save_invoice in this step
InvoiceSaveSucceeds == ret'.fn = "save_invoices" /\ ret'.out = "True"

\* a step of save_invoice: its entry, its save_invoices call raising, or a step of the
\* save_invoices call it made
SaveInvoiceStep ==
    \/ pend.op = "save_invoice"
    \/ pend'.op = "save_invoice"
    \/ ret'.fn = "save_invoices"

\* C26: a save_invoice whose save_invoices call does not succeed leaves the invoice
\* counter in memory, the settings file and the cart as they were; one whose call
\* succeeds raises the counter by one, leaves the settings file holding the settings
\* with the new counter, and empties the cart.
C26_CounterAndCartOnSuccessOnly ==
    /\ [][(SaveInvoiceStep /\ ~InvoiceSaveSucceeds) =>
            /\ settings'.invoice_counter = settings.invoice_counter
            /\ settings_file' = settings_file
            /\ invoice_cart' = invoice_cart]_vars
    /\ [][InvoiceSaveSucceeds =>
            /\ settings'.invoice_counter = settings.invoice_counter + 1
            /\ settings_file' = [st |-> "ok", val |-> settings']
            /\ invoice_cart' = <<>>]_vars


\* load_settings has just returned after finding a settings file it could not parse
LoadedUnparsable == ret.fn = "load_settings" /\ last_load.out.st = "partial"

\* C27: when load_settings returns after finding a settings file that json.load
\* rejects, every setting has its default (invoice_counter 1, storage_mode parquet),
\* and the settings file holds these defaults if the write at its end completed.
C27_UnparsableSettingsReset ==
    LoadedUnparsable =>
        /\ settings = default_settings
        /\ settings.invoice_counter = 1
        /\ settings.storage_mode = "parquet"
        /\ ret.out = "True" => settings_file = [st |-> "ok", val |-> default_settings]

\* a session started on a truncated settings file, which now holds the defaults
C27_Witness ==
    /\ LoadedUnparsable
    /\ ret.out = "True"
    /\ settings_file.st = "ok"
    /\ settings_file.val.invoice_counter = DefaultInvoiceCounter
    /\ settings_file.val.storage_mode = "parquet"


\* grand_total - (subtotal - total_discount + total_tax) of the totals shown, in cents
TotalsGap ==
    ret.df.totals.grand_total
        - (ret.df.totals.subtotal - ret.df.totals.total_discount + ret.df.totals.total_tax)

\* C28: the grand total shown differs by at most one cent from subtotal minus
\* total_discount plus total_tax as shown, and with both rates from 0 to 100 and no
\* negative line total the discount lies between 0 and the subtotal and the grand
\* total is not negative.
C28_TotalsConsistent ==
    ret.fn = "calculate_invoice_totals" =>
        /\ TotalsGap \in -1..1
        /\ (/\ ret.df.global_discount \in 0..10000
            /\ ret.df.global_tax \in 0..10000
            /\ \A i \in 1..Len(invoice_cart) : invoice_cart[i].line_total.m >= 0)
           => /\ 0 <= ret.df.totals.total_discount
              /\ ret.df.totals.total_discount <= ret.df.totals.subtotal
              /\ ret.df.totals.grand_total >= 0

\* totals shown at a discount above zero whose grand total is one cent away from the
\* other three figures combined
C28_Witness ==
    /\ ret.fn = "calculate_invoice_totals"
    /\ ret.df.global_discount > 0
    /\ ret.df.totals.total_discount > 0
    /\ TotalsGap # 0


\* C29: the imported_count of a successful import is the number of records that the
\* inventory file holds now and did not hold before the import.
C29_ImportedCountIsAdded ==
    Imported => ret.res.imported_count = Len(AddedByImport)


\* C30: with two sessions saving invoices in turns, no two invoices of an invoice
\* table carry the same invoice_number, the table holds every invoice either session
\* saved, and the invoice_counter in the settings file is above the counter of every
\* number used.
C30_SessionsNumberApart ==
    /\ \A m \in Modes :
          InvoiceFile(m).st = "ok" =>
              \A i, j \in 1..Len(InvoiceFile(m).rows) :
                  i < j => InvoiceFile(m).rows[i].invoice_number
                              # InvoiceFile(m).rows[j].invoice_number
    /\ \A m \in Modes :
          pc = "idle" =>
              \A k \in 1..Len(saved_invoices[m]) :
                  /\ InvoiceFile(m).st = "ok"
                  /\ \E i \in 1..Len(InvoiceFile(m).rows) :
                         InvoiceFile(m).rows[i].invoice_id = saved_invoices[m][k].invoice_id
    /\ \A m \in Modes :
          pc = "idle" =>
              \A k \in 1..Len(saved_invoices[m]) :
                  /\ settings_file.st = "ok"
                  /\ CounterOf(saved_invoices[m][k].invoice_number.s)
                         < settings_file.val.invoice_counter

====
